---- MODULE Spec2Model ----
(***************************************************************************)
(* The webhook protocol handler of external-dns-glesys                     *)
(* (src/webhook/webhook.go): media-type negotiation, the Health            *)
(* middleware, the header checks and the four handlers, run against an     *)
(* arbitrary Provider and an http.ResponseWriter.                          *)
(*                                                                         *)
(* Text (header values, bodies, messages) is a sequence of tokens; a       *)
(* version identifier and the configured version list are sequences of    *)
(* one-character tokens, so that len() and strings.Split act on them as    *)
(* they do on the Go strings.                                              *)
(***************************************************************************)
EXTENDS Integers, Sequences, FiniteSets, TLC

VARIABLES
    supportedMediaVersions, \* the configured comma-separated version list
    running,                \* the process is up (logrus Fatalf exits it)
    pc,                     \* per connection: "idle", "provider", "done", "killed"
    request,                \* per connection: the request being served
    w,                      \* per connection: the http.ResponseWriter
    checks,                 \* per connection: the header checks made, in order
    call,                   \* per connection: the Provider call made
    ret,                    \* per connection: what the Provider call returned
    ctxDone                 \* per connection: r.Context() is cancelled

vars == <<supportedMediaVersions, running, pc, request, w, checks, call, ret, ctxDone>>

---------------------------------------------------------------------------
(* Bounds of the model *)

\* longest endpoint slice in a request body or a Provider result
MaxEndpoints == 2
\* longest sequence of a Changes body
MaxChanges == 1

---------------------------------------------------------------------------
(* Constants of webhook.go *)

mediaTypeFormat == <<"application/external.dns.webhook+json;">>
contentTypeHeader == "Content-Type"
contentTypePlaintext == <<"text/plain">>
acceptHeader == "Accept"
varyHeader == "Vary"
healthPath == "/health"

StatusOK == 200
StatusNoContent == 204
StatusBadRequest == 400
StatusNotAcceptable == 406
StatusUnsupportedMediaType == 415
StatusInternalServerError == 500

\* const supportedMediaVersions = "1"
ConfiguredVersions == <<"1">>

---------------------------------------------------------------------------
(* Media-type negotiation *)

RECURSIVE Split(_, _)
\* strings.Split(s, sep) for a one-character separator
Split(s, sep) ==
    IF \A i \in 1..Len(s) : s[i] # sep
    THEN <<s>>
    ELSE LET k == CHOOSE i \in 1..Len(s) :
                      s[i] = sep /\ \A j \in 1..(i - 1) : s[j] # sep
         IN  <<SubSeq(s, 1, k - 1)>> \o Split(SubSeq(s, k + 1, Len(s)), sep)

mediaTypeVersion(v) == mediaTypeFormat \o <<"version=">> \o v

mediaTypeVersion1 == mediaTypeVersion(<<"1">>)

\* Is, were it strings.HasPrefix(headerValue, string(m))
IsPrefixMatch(m, headerValue) ==
    /\ Len(m) <= Len(headerValue)
    /\ SubSeq(headerValue, 1, Len(m)) = m

\* mediaType.Is
Is(m, headerValue) == m = headerValue

RECURSIVE supportedMediaTypesString(_, _, _)
\* the second loop of checkAndGetMediaTypeHeaderValue, from index i (0-based)
supportedMediaTypesString(versions, i, configLen) ==
    IF i >= Len(versions)
    THEN <<>>
    ELSE mediaTypeVersion(versions[i + 1])
             \o (IF i < configLen - 1 THEN <<", ">> ELSE <<>>)
             \o supportedMediaTypesString(versions, i + 1, configLen)

RECURSIVE firstMatch(_, _, _)
\* the first loop of checkAndGetMediaTypeHeaderValue, from index i (1-based):
\* the index of the first version whose media type is the value, or 0
firstMatch(versions, value, i) ==
    IF i > Len(versions) THEN 0
    ELSE IF Is(mediaTypeVersion(versions[i]), value) THEN i
    ELSE firstMatch(versions, value, i + 1)

\* what checkAndGetMediaTypeHeaderValue returns when its first loop ends at k
negotiated(versions, k, value) ==
    IF k > 0
    THEN [v |-> versions[k], err |-> FALSE, msg |-> <<>>]
    ELSE [v |-> <<>>, err |-> TRUE,
          msg |-> <<"unsupported media type version: '">> \o value
                    \o <<"'. Supported media types are: '">>
                    \o supportedMediaTypesString(versions, 0, Len(supportedMediaVersions))
                    \o <<"'">>]

checkAndGetMediaTypeHeaderValueOf(versions, value) ==
    negotiated(versions, firstMatch(versions, value, 1), value)

checkAndGetMediaTypeHeaderValue(value) ==
    checkAndGetMediaTypeHeaderValueOf(Split(supportedMediaVersions, ","), value)

---------------------------------------------------------------------------
(* Values carried by the protocol, and encoding/json on them *)

\* endpoint.Endpoint behind a pointer; the fields tagged omitempty
NilEndpoint == [isNil |-> TRUE, dnsName |-> "", recordTTL |-> 0]
ZeroEndpoint == [isNil |-> FALSE, dnsName |-> "", recordTTL |-> 0]
Names == {"a"}
TTLs == {0, 300}
EndpointValues ==
    {NilEndpoint,
     [isNil |-> FALSE, dnsName |-> "a", recordTTL |-> 0],
     [isNil |-> FALSE, dnsName |-> "", recordTTL |-> 300]}

\* a Go slice: nil, or a (possibly empty) sequence of elements
NilSlice == [isNil |-> TRUE, elems |-> <<>>]
Slice(s) == [isNil |-> FALSE, elems |-> s]
SeqsUpTo(S, n) == UNION {[1..k -> S] : k \in 0..n}
EndpointSlices == {NilSlice} \cup {Slice(s) : s \in SeqsUpTo(EndpointValues, MaxEndpoints)}

Quote(s) == "\"" \o s \o "\""
dnsNameKey == "\"dnsName\":"
recordTTLKey == "\"recordTTL\":"

\* two texts with sep between them, if neither is empty
Glue(first, rest, sep) ==
    IF first = <<>> THEN rest
    ELSE IF rest = <<>> THEN first
    ELSE first \o <<sep>> \o rest

RECURSIVE Join(_, _)
\* the non-empty members of parts, separated by sep
Join(parts, sep) ==
    IF parts = <<>> THEN <<>> ELSE Glue(Head(parts), Join(Tail(parts), sep), sep)

\* json.Marshal of a *endpoint.Endpoint
MarshalEndpoint(e) ==
    IF e.isNil THEN <<"null">>
    ELSE <<"{">>
         \o Join(<<IF e.dnsName # "" THEN <<dnsNameKey, Quote(e.dnsName)>> ELSE <<>>,
                   IF e.recordTTL # 0 THEN <<recordTTLKey, ToString(e.recordTTL)>> ELSE <<>>>>,
                 ",")
         \o <<"}">>

\* json.Marshal of a []*endpoint.Endpoint
MarshalEndpoints(s) ==
    IF s.isNil THEN <<"null">>
    ELSE <<"[">>
         \o Join([i \in 1..Len(s.elems) |-> MarshalEndpoint(s.elems[i])], ",")
         \o <<"]">>

ParseFail == [ok |-> FALSE, next |-> 0]

RECURSIVE ParseMembers(_, _, _, _)
\* one member (key and value) of an endpoint object at token k, then the rest
ParseMember(t, k, acc) ==
    IF k + 1 > Len(t) THEN ParseFail
    ELSE IF t[k] = dnsNameKey /\ \E n \in Names \cup {""} : t[k + 1] = Quote(n)
    THEN ParseMembers(t, k + 2,
             [acc EXCEPT !.dnsName = CHOOSE n \in Names \cup {""} : t[k + 1] = Quote(n)],
             FALSE)
    ELSE IF t[k] = recordTTLKey /\ \E n \in TTLs : t[k + 1] = ToString(n)
    THEN ParseMembers(t, k + 2,
             [acc EXCEPT !.recordTTL = CHOOSE n \in TTLs : t[k + 1] = ToString(n)],
             FALSE)
    ELSE ParseFail

\* the members of an endpoint object from token i, up to its closing brace
ParseMembers(t, i, acc, first) ==
    IF i > Len(t) THEN ParseFail
    ELSE IF t[i] = "}" THEN [ok |-> TRUE, val |-> acc, next |-> i + 1]
    ELSE IF first THEN ParseMember(t, i, acc)
    ELSE IF t[i] = "," THEN ParseMember(t, i + 1, acc)
    ELSE ParseFail

\* one *endpoint.Endpoint from token i
ParseEndpoint(t, i) ==
    IF i > Len(t) THEN ParseFail
    ELSE IF t[i] = "null" THEN [ok |-> TRUE, val |-> NilEndpoint, next |-> i + 1]
    ELSE IF t[i] = "{" THEN ParseMembers(t, i + 1, ZeroEndpoint, TRUE)
    ELSE ParseFail

RECURSIVE ParseElems(_, _, _, _)
\* AfterElem, were each element decoded over the one before it
AfterElemKeepLast(t, e, acc) ==
    IF e.ok THEN ParseElems(t, e.next, <<e.val>>, FALSE) ELSE ParseFail

\* the array goes on after its element e
AfterElem(t, e, acc) ==
    IF e.ok THEN ParseElems(t, e.next, Append(acc, e.val), FALSE) ELSE ParseFail

\* the elements of an endpoint array from token i, up to its closing bracket
ParseElems(t, i, acc, first) ==
    IF i > Len(t) THEN ParseFail
    ELSE IF t[i] = "]" THEN [ok |-> TRUE, val |-> Slice(acc), next |-> i + 1]
    ELSE IF first THEN AfterElem(t, ParseEndpoint(t, i), acc)
    ELSE IF t[i] = "," THEN AfterElem(t, ParseEndpoint(t, i + 1), acc)
    ELSE ParseFail

\* one []*endpoint.Endpoint from token i
ParseEndpoints(t, i) ==
    IF i > Len(t) THEN ParseFail
    ELSE IF t[i] = "null" THEN [ok |-> TRUE, val |-> NilSlice, next |-> i + 1]
    ELSE IF t[i] = "[" THEN ParseElems(t, i + 1, <<>>, TRUE)
    ELSE ParseFail

\* what Decode gives for the parse p of the first JSON value of the body
Decoded(p, zero) ==
    IF p.ok THEN [err |-> FALSE, val |-> p.val] ELSE [err |-> TRUE, val |-> zero]

\* json.NewDecoder(body).Decode(&pve)
DecodeEndpoints(body) == Decoded(ParseEndpoints(body, 1), NilSlice)

\* plan.Changes: four endpoint slices, each tagged omitempty
ChangeFields == <<"create", "updateOld", "updateNew", "delete">>
ChangeKey(f) == Quote(f) \o ":"
ZeroChanges == [f \in {ChangeFields[i] : i \in 1..Len(ChangeFields)} |-> NilSlice]
ChangeEndpoint == [isNil |-> FALSE, dnsName |-> "a", recordTTL |-> 300]
ChangeLists ==
    {NilSlice} \cup {Slice([i \in 1..k |-> ChangeEndpoint]) : k \in 0..MaxChanges}
ChangesValues == [DOMAIN ZeroChanges -> ChangeLists]

\* json.Marshal of a plan.Changes
MarshalChanges(c) ==
    <<"{">>
    \o Join([i \in 1..Len(ChangeFields) |->
                IF Len(c[ChangeFields[i]].elems) > 0
                THEN <<ChangeKey(ChangeFields[i])>> \o MarshalEndpoints(c[ChangeFields[i]])
                ELSE <<>>], ",")
    \o <<"}">>

RECURSIVE ParseChangeMembers(_, _, _, _)
\* the Changes object goes on after the value v of its member f
AfterChangeMember(t, f, v, acc) ==
    IF v.ok THEN ParseChangeMembers(t, v.next, [acc EXCEPT ![f] = v.val], FALSE)
    ELSE ParseFail

\* one member (key and value) of a Changes object at token k, then the rest
ParseChangeMember(t, k, acc) ==
    IF k > Len(t) \/ \A f \in DOMAIN ZeroChanges : t[k] # ChangeKey(f)
    THEN ParseFail
    ELSE AfterChangeMember(t, CHOOSE g \in DOMAIN ZeroChanges : t[k] = ChangeKey(g),
                           ParseEndpoints(t, k + 1), acc)

\* the members of a Changes object from token i, up to its closing brace
ParseChangeMembers(t, i, acc, first) ==
    IF i > Len(t) THEN ParseFail
    ELSE IF t[i] = "}" THEN [ok |-> TRUE, val |-> acc, next |-> i + 1]
    ELSE IF first THEN ParseChangeMember(t, i, acc)
    ELSE IF t[i] = "," THEN ParseChangeMember(t, i + 1, acc)
    ELSE ParseFail

\* one plan.Changes from the first token
ParseChanges(t) ==
    IF t = <<>> THEN ParseFail
    ELSE IF t[1] = "null" THEN [ok |-> TRUE, val |-> ZeroChanges, next |-> 2]
    ELSE IF t[1] = "{" THEN ParseChangeMembers(t, 2, ZeroChanges, TRUE)
    ELSE ParseFail

\* json.NewDecoder(body).Decode(&changes)
DecodeChanges(body) == Decoded(ParseChanges(body), ZeroChanges)

\* the value GetDomainFilter returns: the domains it includes
DomainFilters == {[filters |-> <<>>], [filters |-> <<"a">>]}

\* json.Marshal of the domain filter
MarshalDomainFilter(df) ==
    <<"{">>
    \o (IF df.filters = <<>> THEN <<>>
        ELSE <<"\"include\":", "[">>
             \o Join([i \in 1..Len(df.filters) |-> <<Quote(df.filters[i])>>], ",")
             \o <<"]">>)
    \o <<"}">>

\* bodies that are no encoding of a value
Malformed == {<<>>, <<"{">>, <<"[">>, <<"[", "]", "]">>, <<"}">>}

---------------------------------------------------------------------------
(* http.ResponseWriter: the header map, the status and headers committed   *)
(* by the first WriteHeader or Write, and the body written.                *)

HeaderNames == {contentTypeHeader, varyHeader}
NoHeaders == [h \in HeaderNames |-> <<>>]
NewResponseWriter ==
    [header |-> NoHeaders, status |-> 0, sent |-> NoHeaders, body |-> <<>>,
     writeErr |-> FALSE, afterCommit |-> {}]

\* w.Header().Set(k, v): after the commit it changes the map, not the response
HeaderSet(rw, k, v) ==
    IF rw.status # 0
    THEN [rw EXCEPT !.header[k] = v, !.afterCommit = @ \cup {"Header.Set"}]
    ELSE [rw EXCEPT !.header[k] = v]

\* w.WriteHeader(code): the first call commits status and headers
WriteHeader(rw, code) ==
    IF rw.status # 0
    THEN [rw EXCEPT !.afterCommit = @ \cup {"WriteHeader"}]
    ELSE [rw EXCEPT !.status = code, !.sent = rw.header]

\* w.Write(data), which succeeds (ok) or fails; it commits 200 if nothing did
Write(rw, data, ok) ==
    IF rw.status = 0
    THEN [rw EXCEPT !.status = StatusOK, !.sent = rw.header,
                    !.body = IF ok THEN @ \o data ELSE @, !.writeErr = ~ok]
    ELSE [rw EXCEPT !.body = IF ok THEN @ \o data ELSE @, !.writeErr = @ \/ ~ok]

---------------------------------------------------------------------------
(* The handlers. A handler runs up to its Provider call (the ...Begin      *)
(* operators, which yield the response so far, the header checks made, the *)
(* Provider call made if any, and whether logrus Fatalf was reached) and   *)
(* resumes when the call returns (the ...End operators).                   *)

NoCall == [method |-> "none", changes |-> ZeroChanges, endpoints |-> NilSlice]
NoRet == [returned |-> FALSE, endpoints |-> NilSlice, err |-> FALSE,
          filter |-> [filters |-> <<>>], marshalErr |-> FALSE]

Stop(rw, cs, fatal) == [w |-> rw, checks |-> cs, call |-> NoCall, fatal |-> fatal]

Proceed(rw, cs, c) == [w |-> rw, checks |-> cs, call |-> c, fatal |-> FALSE]

\* WriteError, were the content type of the message not set
WriteErrorUntyped(rw, status, msg, writeOk) ==
    Write(WriteHeader(rw, status), msg, writeOk)

\* an error response: text/plain, the status, the message, Fatalf if the write fails
WriteError(rw, status, msg, writeOk) ==
    Write(WriteHeader(HeaderSet(rw, contentTypeHeader, contentTypePlaintext), status),
          msg, writeOk)

\* what headerCheck records of one check
CheckEntry(isContentType, header, v, status) ==
    [isContentType |-> isContentType, value |-> header, v |-> v, status |-> status]

\* headerCheckNegotiated, were the negotiation error dropped
headerCheckNegotiatedLenient(isContentType, rw, header, neg, writeOk) ==
    [w |-> rw, err |-> FALSE, fatal |-> FALSE,
     check |-> CheckEntry(isContentType, header, neg.v, 0)]

\* headerCheck from line 126 on: the header is there, neg is its negotiation
headerCheckNegotiated(isContentType, rw, header, neg, writeOk) ==
    IF neg.err
    THEN [w |-> WriteError(rw, StatusUnsupportedMediaType,
                    <<"client must provide a valid versioned media type in the ">>
                        \o (IF isContentType THEN <<"content type">>
                            ELSE <<"accept header">>)
                        \o <<": ">> \o neg.msg,
                    writeOk),
          err |-> TRUE, fatal |-> ~writeOk,
          check |-> CheckEntry(isContentType, header, neg.v, StatusUnsupportedMediaType)]
    ELSE [w |-> rw, err |-> FALSE, fatal |-> FALSE,
          check |-> CheckEntry(isContentType, header, neg.v, 0)]

\* headerCheck from line 109 on, with the header it read
headerCheckOf(isContentType, rw, header, writeOk) ==
    IF Len(header) = 0
    THEN [w |-> WriteError(rw, StatusNotAcceptable,
                    <<"client must provide ">>
                        \o (IF isContentType THEN <<"a content type">>
                            ELSE <<"an accept header">>),
                    writeOk),
          err |-> TRUE, fatal |-> ~writeOk,
          check |-> CheckEntry(isContentType, header, <<>>, StatusNotAcceptable)]
    ELSE headerCheckNegotiated(isContentType, rw, header,
                               checkAndGetMediaTypeHeaderValue(header), writeOk)

headerCheck(isContentType, rw, r, writeOk) ==
    headerCheckOf(isContentType, rw,
                  IF isContentType THEN r.header[contentTypeHeader]
                  ELSE r.header[acceptHeader],
                  writeOk)

contentTypeHeaderCheck(rw, r, writeOk) == headerCheck(TRUE, rw, r, writeOk)

acceptHeaderCheck(rw, r, writeOk) == headerCheck(FALSE, rw, r, writeOk)

\* RecordsChecked, were the return after the failed check missing
RecordsCheckedAnyway(hc) ==
    Proceed(hc.w, <<hc.check>>, [NoCall EXCEPT !.method = "Records"])

\* Records after its accept header check hc
RecordsChecked(hc) ==
    IF hc.err THEN Stop(hc.w, <<hc.check>>, hc.fatal)
    ELSE Proceed(hc.w, <<hc.check>>, [NoCall EXCEPT !.method = "Records"])

\* Records, up to p.provider.Records(ctx)
RecordsBegin(rw, r, writeOk) == RecordsChecked(acceptHeaderCheck(rw, r, writeOk))

\* Records after json.NewEncoder(w).Encode(records) wrote rw
RecordsEncoded(rw, writeOk) ==
    IF writeOk THEN rw ELSE WriteHeader(rw, StatusInternalServerError)

\* RecordsEnd, were the Vary header not set
RecordsEndNoVary(rw, records, err, writeOk) ==
    IF err
    THEN [w |-> WriteHeader(rw, StatusInternalServerError), fatal |-> FALSE]
    ELSE [w |-> RecordsEncoded(
                    Write(HeaderSet(rw, contentTypeHeader, mediaTypeVersion1),
                          MarshalEndpoints(records) \o <<"\n">>, writeOk),
                    writeOk),
          fatal |-> FALSE]

\* Records, from the return of p.provider.Records(ctx)
RecordsEnd(rw, records, err, writeOk) ==
    IF err
    THEN [w |-> WriteHeader(rw, StatusInternalServerError), fatal |-> FALSE]
    ELSE [w |-> RecordsEncoded(
                    Write(HeaderSet(HeaderSet(rw, contentTypeHeader, mediaTypeVersion1),
                                    varyHeader, <<contentTypeHeader>>),
                          MarshalEndpoints(records) \o <<"\n">>, writeOk),
                    writeOk),
          fatal |-> FALSE]

\* ApplyChangesDecoded, were the return after the failed decode missing
ApplyChangesDecodedAnyway(hc, dec, writeOk) ==
    Proceed(IF dec.err
            THEN WriteError(hc.w, StatusBadRequest, <<"error decoding changes: ">>, writeOk)
            ELSE hc.w,
            <<hc.check>>,
            [NoCall EXCEPT !.method = "ApplyChanges", !.changes = dec.val])

\* ApplyChanges after decoding the body
ApplyChangesDecoded(hc, dec, writeOk) ==
    IF dec.err
    THEN Stop(WriteError(hc.w, StatusBadRequest, <<"error decoding changes: ">>, writeOk),
              <<hc.check>>, ~writeOk)
    ELSE Proceed(hc.w, <<hc.check>>,
                 [NoCall EXCEPT !.method = "ApplyChanges", !.changes = dec.val])

\* ApplyChanges after its content type header check hc
ApplyChangesChecked(hc, r, writeOk) ==
    IF hc.err THEN Stop(hc.w, <<hc.check>>, hc.fatal)
    ELSE ApplyChangesDecoded(hc, DecodeChanges(r.body), writeOk)

\* ApplyChanges, up to p.provider.ApplyChanges(ctx, &changes)
ApplyChangesBegin(rw, r, writeOk) ==
    ApplyChangesChecked(contentTypeHeaderCheck(rw, r, writeOk), r, writeOk)

\* ApplyChangesEnd, were the error of the Provider dropped
ApplyChangesEndNoError(rw, err) ==
    [w |-> WriteHeader(rw, StatusNoContent), fatal |-> FALSE]

\* ApplyChanges, from the return of p.provider.ApplyChanges(ctx, &changes)
ApplyChangesEnd(rw, err) ==
    IF err
    THEN [w |-> WriteHeader(HeaderSet(rw, contentTypeHeader, contentTypePlaintext),
                            StatusInternalServerError),
          fatal |-> FALSE]
    ELSE [w |-> WriteHeader(rw, StatusNoContent), fatal |-> FALSE]

\* AdjustEndpoints after decoding the body
AdjustEndpointsDecoded(ct, ac, dec, writeOk) ==
    IF dec.err
    THEN Stop(WriteError(ac.w, StatusBadRequest, <<"failed to decode request body: ">>,
                         writeOk),
              <<ct.check, ac.check>>, ~writeOk)
    ELSE Proceed(ac.w, <<ct.check, ac.check>>,
                 [NoCall EXCEPT !.method = "AdjustEndpoints", !.endpoints = dec.val])

\* AdjustEndpoints after its accept header check ac
AdjustEndpointsAccepted(ct, ac, r, writeOk) ==
    IF ac.err THEN Stop(ac.w, <<ct.check, ac.check>>, ac.fatal)
    ELSE AdjustEndpointsDecoded(ct, ac, DecodeEndpoints(r.body), writeOk)

\* AdjustEndpointsChecked, were the return after the failed content type
\* check missing
AdjustEndpointsCheckedNoReturn(ct, r, writeOk) ==
    AdjustEndpointsAccepted(ct, acceptHeaderCheck(ct.w, r, writeOk), r, writeOk)

\* AdjustEndpoints after its content type header check ct
AdjustEndpointsChecked(ct, r, writeOk) ==
    IF ct.err THEN Stop(ct.w, <<ct.check>>, ct.fatal)
    ELSE AdjustEndpointsAccepted(ct, acceptHeaderCheck(ct.w, r, writeOk), r, writeOk)

\* AdjustEndpoints, up to p.provider.AdjustEndpoints(pve)
AdjustEndpointsBegin(rw, r, writeOk) ==
    AdjustEndpointsChecked(contentTypeHeaderCheck(rw, r, writeOk), r, writeOk)

\* AdjustEndpoints from line 227 on
AdjustEndpointsWrite(rw, pve, writeOk) ==
    [w |-> Write(HeaderSet(HeaderSet(rw, contentTypeHeader, mediaTypeVersion1),
                           varyHeader, <<contentTypeHeader>>),
                 MarshalEndpoints(pve), writeOk),
     fatal |-> ~writeOk]

\* AdjustEndpointsEnd, were there a return after the error of the Provider
AdjustEndpointsEndStop(rw, pve, err, writeOk) ==
    IF err
    THEN [w |-> WriteHeader(HeaderSet(rw, contentTypeHeader, contentTypePlaintext),
                            StatusInternalServerError),
          fatal |-> FALSE]
    ELSE AdjustEndpointsWrite(rw, pve, writeOk)

\* AdjustEndpoints, from the return of p.provider.AdjustEndpoints(pve)
AdjustEndpointsEnd(rw, pve, err, writeOk) ==
    IF err
    THEN AdjustEndpointsWrite(
             WriteHeader(HeaderSet(rw, contentTypeHeader, contentTypePlaintext),
                         StatusInternalServerError),
             pve, writeOk)
    ELSE AdjustEndpointsWrite(rw, pve, writeOk)

\* Negotiate after its accept header check hc
NegotiateChecked(hc) ==
    IF hc.err THEN Stop(hc.w, <<hc.check>>, hc.fatal)
    ELSE Proceed(hc.w, <<hc.check>>, [NoCall EXCEPT !.method = "GetDomainFilter"])

\* Negotiate, up to p.provider.GetDomainFilter()
NegotiateBegin(rw, r, writeOk) == NegotiateChecked(acceptHeaderCheck(rw, r, writeOk))

\* Negotiate after w.Write(b) wrote rw
NegotiateWritten(rw, writeOk) ==
    IF writeOk THEN rw ELSE WriteHeader(rw, StatusInternalServerError)

\* NegotiateEnd, were the Vary header set as in the other handlers
NegotiateEndVary(rw, filter, marshalErr, writeOk) ==
    IF marshalErr
    THEN [w |-> WriteHeader(rw, StatusInternalServerError), fatal |-> FALSE]
    ELSE [w |-> NegotiateWritten(
                    Write(HeaderSet(HeaderSet(rw, contentTypeHeader, mediaTypeVersion1),
                                    varyHeader, <<contentTypeHeader>>),
                          MarshalDomainFilter(filter), writeOk),
                    writeOk),
          fatal |-> FALSE]

\* Negotiate, from the return of p.provider.GetDomainFilter()
NegotiateEnd(rw, filter, marshalErr, writeOk) ==
    IF marshalErr
    THEN [w |-> WriteHeader(rw, StatusInternalServerError), fatal |-> FALSE]
    ELSE [w |-> NegotiateWritten(
                    Write(HeaderSet(rw, contentTypeHeader, mediaTypeVersion1),
                          MarshalDomainFilter(filter), writeOk),
                    writeOk),
          fatal |-> FALSE]

\* next.ServeHTTP(w, r): the handler the router gives the request to
ServeHTTP(rw, r, writeOk) ==
    CASE r.handler = "Records" -> RecordsBegin(rw, r, writeOk)
      [] r.handler = "ApplyChanges" -> ApplyChangesBegin(rw, r, writeOk)
      [] r.handler = "AdjustEndpoints" -> AdjustEndpointsBegin(rw, r, writeOk)
      [] r.handler = "Negotiate" -> NegotiateBegin(rw, r, writeOk)

\* Health, were it to answer GET requests only
HealthGetOnly(rw, r, writeOk) ==
    IF r.path = healthPath /\ r.method = "GET"
    THEN Stop(WriteHeader(rw, StatusOK), <<>>, FALSE)
    ELSE ServeHTTP(rw, r, writeOk)

\* the Health middleware around next
Health(rw, r, writeOk) ==
    IF r.path = healthPath
    THEN Stop(WriteHeader(rw, StatusOK), <<>>, FALSE)
    ELSE ServeHTTP(rw, r, writeOk)

---------------------------------------------------------------------------
(* The server: each connection serves one request at a time, in its own    *)
(* goroutine; a request-scoped state is dropped when the handler returns.  *)

Conns == {1, 2}
Handlers == {"Records", "ApplyChanges", "AdjustEndpoints", "Negotiate"}
Methods == {"GET", "POST"}
Paths == {healthPath, "/records"}
RequestHeaders == {contentTypeHeader, acceptHeader}

NoRequest == [handler |-> "none", method |-> "GET", path |-> "",
              header |-> [h \in RequestHeaders |-> <<>>], body |-> <<>>]

\* header values a client sends: none, the supported one, another version,
\* a wildcard
HeaderValues == {<<>>, mediaTypeVersion(<<"1">>), mediaTypeVersion(<<"2">>), <<"*/*">>}

\* bodies a client sends to a handler
Bodies(handler) ==
    CASE handler = "ApplyChanges" ->
             {MarshalChanges(c) : c \in ChangesValues} \cup Malformed \cup {<<"[", "]">>}
      [] handler = "AdjustEndpoints" ->
             {MarshalEndpoints(e) : e \in EndpointSlices} \cup Malformed \cup {<<"{", "}">>}
      [] OTHER -> {<<>>, <<"[", "]">>}

Requests ==
    UNION {[handler : {h}, method : Methods, path : Paths,
            header : [RequestHeaders -> HeaderValues], body : Bodies(h)] : h \in Handlers}

\* version lists the configuration could hold, and header values against them
Configs == {<<"1">>, <<"1", ",", "2">>, <<"2", ",", "1", "0">>, <<"1", "0">>}
VersionIds == {<<"1">>, <<"2">>, <<"1", "0">>, <<"*">>, <<>>, <<"1", ",", "2">>}
HeaderValuesN ==
    {mediaTypeVersion(v) : v \in VersionIds}
        \cup {<<>>, mediaTypeFormat, <<"version=", "1">>, <<"*/*">>,
              mediaTypeVersion(<<"1">>) \o <<";">>}
RequestsN ==
    [handler : {"Records", "ApplyChanges"}, method : {"GET"}, path : {"/"},
     header : [RequestHeaders -> HeaderValuesN], body : {<<"{", "}">>}]

Init ==
    /\ supportedMediaVersions = ConfiguredVersions
    /\ running = TRUE
    /\ pc = [c \in Conns |-> "idle"]
    /\ request = [c \in Conns |-> NoRequest]
    /\ w = [c \in Conns |-> NewResponseWriter]
    /\ checks = [c \in Conns |-> <<>>]
    /\ call = [c \in Conns |-> NoCall]
    /\ ret = [c \in Conns |-> NoRet]
    /\ ctxDone = [c \in Conns |-> FALSE]

\* any version list in place of the configured one
InitN ==
    /\ supportedMediaVersions \in Configs
    /\ running = TRUE
    /\ pc = [c \in Conns |-> "idle"]
    /\ request = [c \in Conns |-> NoRequest]
    /\ w = [c \in Conns |-> NewResponseWriter]
    /\ checks = [c \in Conns |-> <<>>]
    /\ call = [c \in Conns |-> NoCall]
    /\ ret = [c \in Conns |-> NoRet]
    /\ ctxDone = [c \in Conns |-> FALSE]

\* logrus Fatalf ends the process, and with it every request in flight
Exit(c) == [q \in Conns |-> IF q = c \/ pc[q] = "provider" THEN "killed" ELSE pc[q]]

\* the handler of connection c returned, or exited the process
Returned(c, out) ==
    /\ w' = [w EXCEPT ![c] = out.w]
    /\ running' = ~out.fatal
    /\ pc' = IF out.fatal THEN Exit(c) ELSE [pc EXCEPT ![c] = "done"]

\* Started, were the header checks kept in a field of Webhook, which the
\* goroutines of all connections share
StartedShared(c, out) ==
    /\ checks' = [q \in Conns |-> out.checks]
    /\ call' = [call EXCEPT ![c] = out.call]
    /\ IF out.call.method # "none"
       THEN /\ w' = [w EXCEPT ![c] = out.w]
            /\ pc' = [pc EXCEPT ![c] = "provider"]
            /\ running' = running
       ELSE Returned(c, out)

\* the handler of connection c ran up to its Provider call, or to its end
Started(c, out) ==
    /\ checks' = [checks EXCEPT ![c] = out.checks]
    /\ call' = [call EXCEPT ![c] = out.call]
    /\ IF out.call.method # "none"
       THEN /\ w' = [w EXCEPT ![c] = out.w]
            /\ pc' = [pc EXCEPT ![c] = "provider"]
            /\ running' = running
       ELSE Returned(c, out)

\* a request arrives on connection c and runs up to its Provider call
ServeFrom(c, reqs) ==
    /\ running
    /\ pc[c] = "idle"
    /\ \E r \in reqs, writeOk \in BOOLEAN :
          /\ request' = [request EXCEPT ![c] = r]
          /\ Started(c, Health(NewResponseWriter, r, writeOk))
    /\ UNCHANGED <<supportedMediaVersions, ret, ctxDone>>

Serve(c) == ServeFrom(c, Requests)

ServeN(c) == ServeFrom(c, RequestsN)

\* the context of the request is cancelled (the client went away, or a
\* timeout of the server passed) while its Provider call runs
Cancel(c) ==
    /\ running
    /\ pc[c] = "provider"
    /\ ~ctxDone[c]
    /\ ctxDone' = [ctxDone EXCEPT ![c] = TRUE]
    /\ UNCHANGED <<supportedMediaVersions, running, pc, request, w, checks, call, ret>>

\* the errors a Provider call can return: a call that was given the context
\* of the request fails once that context is cancelled
ProviderErrs(ctxPassed, done) == IF ctxPassed /\ done THEN {TRUE} ELSE BOOLEAN

\* p.provider.Records(ctx) returns one of results, and Records runs to its end
RecordsReturnFrom(c, results) ==
    /\ running
    /\ pc[c] = "provider"
    /\ call[c].method = "Records"
    /\ \E records \in results, err \in ProviderErrs(TRUE, ctxDone[c]),
          writeOk \in BOOLEAN :
          /\ ret' = [ret EXCEPT ![c] = [NoRet EXCEPT !.returned = TRUE,
                                         !.endpoints = records, !.err = err]]
          /\ Returned(c, RecordsEnd(w[c], records, err, writeOk))
    /\ UNCHANGED <<supportedMediaVersions, request, checks, call, ctxDone>>

RecordsReturn(c) == RecordsReturnFrom(c, EndpointSlices)

\* p.provider.ApplyChanges(ctx, &changes) returns, and ApplyChanges runs to its end
ApplyChangesReturn(c) ==
    /\ running
    /\ pc[c] = "provider"
    /\ call[c].method = "ApplyChanges"
    /\ \E err \in ProviderErrs(TRUE, ctxDone[c]) :
          /\ ret' = [ret EXCEPT ![c] = [NoRet EXCEPT !.returned = TRUE, !.err = err]]
          /\ Returned(c, ApplyChangesEnd(w[c], err))
    /\ UNCHANGED <<supportedMediaVersions, request, checks, call, ctxDone>>

\* p.provider.AdjustEndpoints(pve), which is not given the context, returns
\* one of results, and AdjustEndpoints runs to its end
AdjustEndpointsReturnFrom(c, results) ==
    /\ running
    /\ pc[c] = "provider"
    /\ call[c].method = "AdjustEndpoints"
    /\ \E pve \in results, err \in ProviderErrs(FALSE, ctxDone[c]),
          writeOk \in BOOLEAN :
          /\ ret' = [ret EXCEPT ![c] = [NoRet EXCEPT !.returned = TRUE,
                                         !.endpoints = pve, !.err = err]]
          /\ Returned(c, AdjustEndpointsEnd(w[c], pve, err, writeOk))
    /\ UNCHANGED <<supportedMediaVersions, request, checks, call, ctxDone>>

AdjustEndpointsReturn(c) == AdjustEndpointsReturnFrom(c, EndpointSlices)

\* p.provider.GetDomainFilter returns, and Negotiate runs to its end
GetDomainFilterReturn(c) ==
    /\ running
    /\ pc[c] = "provider"
    /\ call[c].method = "GetDomainFilter"
    /\ \E filter \in DomainFilters, marshalErr \in BOOLEAN, writeOk \in BOOLEAN :
          /\ ret' = [ret EXCEPT ![c] = [NoRet EXCEPT !.returned = TRUE,
                                         !.filter = filter, !.marshalErr = marshalErr]]
          /\ Returned(c, NegotiateEnd(w[c], filter, marshalErr, writeOk))
    /\ UNCHANGED <<supportedMediaVersions, request, checks, call, ctxDone>>

\* the response is complete; the connection takes its next request
Complete(c) ==
    /\ running
    /\ pc[c] = "done"
    /\ pc' = [pc EXCEPT ![c] = "idle"]
    /\ request' = [request EXCEPT ![c] = NoRequest]
    /\ w' = [w EXCEPT ![c] = NewResponseWriter]
    /\ checks' = [checks EXCEPT ![c] = <<>>]
    /\ call' = [call EXCEPT ![c] = NoCall]
    /\ ret' = [ret EXCEPT ![c] = NoRet]
    /\ ctxDone' = [ctxDone EXCEPT ![c] = FALSE]
    /\ UNCHANGED <<supportedMediaVersions, running>>

ProviderReturn(c) ==
    \/ RecordsReturn(c)
    \/ ApplyChangesReturn(c)
    \/ AdjustEndpointsReturn(c)
    \/ GetDomainFilterReturn(c)

\* requests served one after the other; connection 1 carries them
Next == Serve(1) \/ Cancel(1) \/ ProviderReturn(1) \/ Complete(1)

Spec == Init /\ [][Next]_vars

\* the same, for any version list and header value
NextN == ServeN(1) \/ RecordsReturn(1) \/ ApplyChangesReturn(1) \/ Complete(1)

SpecN == InitN /\ [][NextN]_vars

\* requests served at the same time, one goroutine per connection
RequestsC ==
    [handler : Handlers, method : {"POST"}, path : {"/records"},
     header : [RequestHeaders -> {<<>>, mediaTypeVersion1}],
     body : {<<"[", "]">>, <<"{", "}">>}]
ResultsC == {NilSlice, Slice(<<ZeroEndpoint>>)}

ServeC(c) == ServeFrom(c, RequestsC)

NextC ==
    \E c \in Conns :
        \/ ServeC(c)
        \/ RecordsReturnFrom(c, ResultsC)
        \/ ApplyChangesReturn(c)
        \/ AdjustEndpointsReturnFrom(c, ResultsC)
        \/ GetDomainFilterReturn(c)
        \/ Complete(c)

SpecC == Init /\ [][NextC]_vars

---------------------------------------------------------------------------
(* Properties *)

\* the versions of the configured list
Supported ==
    {Split(supportedMediaVersions, ",")[i] :
        i \in 1..Len(Split(supportedMediaVersions, ","))}
SupportedMediaType(h) == \E v \in Supported : h = mediaTypeVersion(v)

\* connection c serves a request that the middleware gave to handler h
Routed(c, h) ==
    /\ pc[c] # "idle"
    /\ request[c].path # healthPath
    /\ request[c].handler = h
ContentTypeOf(c) == request[c].header[contentTypeHeader]
AcceptOf(c) == request[c].header[acceptHeader]
NoProviderCall(c) ==
    /\ call[c].method = "none"
    /\ pc[c] # "provider"
    /\ ~ret[c].returned

\* C1: every negotiation of a header value that is the media type of a
\* supported version v succeeds and returns exactly v; every negotiation of
\* any other value fails, and the check answers 415 Unsupported Media Type.
C1_NegotiationIsExact ==
    \A c \in Conns : \A i \in 1..Len(checks[c]) :
        checks[c][i].value # <<>> =>
            /\ \A v \in Supported :
                   checks[c][i].value = mediaTypeVersion(v) =>
                       checks[c][i].status = 0 /\ checks[c][i].v = v
            /\ ~SupportedMediaType(checks[c][i].value) =>
                   /\ checks[c][i].status = StatusUnsupportedMediaType
                   /\ checks[c][i].v = <<>>
                   /\ w[c].status = StatusUnsupportedMediaType

\* a version listed after another one was negotiated, and returned
C1_Witness ==
    /\ supportedMediaVersions = <<"2", ",", "1", "0">>
    /\ \E c \in Conns :
          /\ Len(checks[c]) = 1
          /\ checks[c][1].value = mediaTypeVersion(<<"1", "0">>)
          /\ checks[c][1].v = <<"1", "0">>
          /\ checks[c][1].status = 0
          /\ pc[c] = "provider"

\* C2: Records without an Accept header answers 406 and never calls the
\* Provider, at any point of the request.
C2_RecordsWithoutAccept ==
    \A c \in Conns :
        Routed(c, "Records") /\ AcceptOf(c) = <<>> =>
            /\ w[c].status = StatusNotAcceptable
            /\ NoProviderCall(c)

C2_Witness ==
    \E c \in Conns :
        /\ Routed(c, "Records") /\ AcceptOf(c) = <<>>
        /\ pc[c] = "done"
        /\ w[c].status = StatusNotAcceptable
        /\ w[c].body = <<"client must provide ", "an accept header">>

\* bodies that do not decode as a Changes object
UnparsableChanges == Malformed \cup {<<"[", "]">>}

\* C3: ApplyChanges without a Content-Type header answers 406; with a
\* supported Content-Type and a body that does not decode as Changes it answers
\* 400 with Content-Type text/plain and a plaintext message (the message is
\* there unless writing it failed); the Provider is called in neither case.
C3_ApplyChangesRejects ==
    \A c \in Conns :
        Routed(c, "ApplyChanges") =>
            /\ ContentTypeOf(c) = <<>> =>
                   w[c].status = StatusNotAcceptable /\ NoProviderCall(c)
            /\ SupportedMediaType(ContentTypeOf(c))
                 /\ request[c].body \in UnparsableChanges =>
                   /\ w[c].status = StatusBadRequest
                   /\ w[c].sent[contentTypeHeader] = contentTypePlaintext
                   /\ ~w[c].writeErr => w[c].body = <<"error decoding changes: ">>
                   /\ NoProviderCall(c)

C3_Witness ==
    \E c \in Conns :
        /\ Routed(c, "ApplyChanges")
        /\ SupportedMediaType(ContentTypeOf(c))
        /\ request[c].body = <<"[", "]">>
        /\ pc[c] = "done"
        /\ w[c].status = StatusBadRequest
        /\ w[c].body # <<>>

\* the headers a handler requires, in the order it checks them
Required(h) ==
    CASE h = "ApplyChanges" -> <<contentTypeHeader>>
      [] h = "AdjustEndpoints" -> <<contentTypeHeader, acceptHeader>>
      [] OTHER -> <<acceptHeader>>
Unsupported(h) == h # <<>> /\ ~SupportedMediaType(h)

\* the response to a header that failed negotiation: 415, text/plain, the
\* message alone, no Provider call, and nothing done to the response after it
UnsupportedResponse(c) ==
    /\ w[c].status = StatusUnsupportedMediaType
    /\ w[c].sent[contentTypeHeader] = contentTypePlaintext
    /\ w[c].sent[varyHeader] = <<>>
    /\ ~w[c].writeErr =>
           /\ Len(w[c].body) > 3
           /\ w[c].body[1] = "client must provide a valid versioned media type in the "
           /\ w[c].body[Len(w[c].body)] = "'"
    /\ w[c].writeErr => w[c].body = <<>>
    /\ w[c].afterCommit = {}
    /\ NoProviderCall(c)

\* C4 as stated: in every handler, a required header that is present and fails
\* negotiation gives the 415 response, whatever the other required header is.
C4_AnyUnsupportedHeaderGives415 ==
    \A c \in Conns : \A h \in Handlers :
        Routed(c, h) =>
            \A i \in 1..Len(Required(h)) :
                Unsupported(request[c].header[Required(h)[i]]) => UnsupportedResponse(c)

\* C4, amended: in every handler, a required header that is present and fails
\* negotiation gives the 415 response (text/plain, the message, no Provider
\* call, nothing written after it), provided the headers the handler checks
\* before it passed their check.
C4_FirstUnsupportedHeaderGives415 ==
    \A c \in Conns : \A h \in Handlers :
        Routed(c, h) =>
            \A i \in 1..Len(Required(h)) :
                /\ Unsupported(request[c].header[Required(h)[i]])
                /\ \A j \in 1..(i - 1) :
                       SupportedMediaType(request[c].header[Required(h)[j]])
                => UnsupportedResponse(c)

\* AdjustEndpoints answered 415 to its Accept header, after its Content-Type passed
C4_Witness ==
    \E c \in Conns :
        /\ Routed(c, "AdjustEndpoints")
        /\ SupportedMediaType(ContentTypeOf(c))
        /\ Unsupported(AcceptOf(c))
        /\ pc[c] = "done"
        /\ Len(checks[c]) = 2
        /\ w[c].status = StatusUnsupportedMediaType
        /\ w[c].body # <<>>

\* the JSON array of the elements of a slice, whether the slice is nil or not
ArrayOf(s) == MarshalEndpoints(Slice(s.elems))

\* a Records request with a supported Accept header whose Provider call
\* returned no error, and whose response was written
RecordsSucceeded(c) ==
    /\ Routed(c, "Records")
    /\ SupportedMediaType(AcceptOf(c))
    /\ pc[c] = "done"
    /\ ret[c].returned /\ ~ret[c].err
    /\ ~w[c].writeErr

\* C5 as stated: a successful Records answers 200 with the negotiated media
\* type, Vary: Content-Type and the JSON array of the records returned, which
\* is [] for zero records, returned as an empty list or as a nil one.
C5_RecordsSuccess ==
    \A c \in Conns :
        RecordsSucceeded(c) =>
            /\ w[c].status = StatusOK
            /\ w[c].sent[contentTypeHeader] = mediaTypeVersion(checks[c][1].v)
            /\ w[c].sent[varyHeader] = <<contentTypeHeader>>
            /\ w[c].body = ArrayOf(ret[c].endpoints) \o <<"\n">>

\* what holds of the code: the same, for every list that is not nil
C5_RecordsSuccessNonNil ==
    \A c \in Conns :
        RecordsSucceeded(c) /\ ~ret[c].endpoints.isNil =>
            /\ w[c].status = StatusOK
            /\ w[c].sent[contentTypeHeader] = mediaTypeVersion(checks[c][1].v)
            /\ w[c].sent[varyHeader] = <<contentTypeHeader>>
            /\ w[c].body = ArrayOf(ret[c].endpoints) \o <<"\n">>

\* the Provider returned a nil list and the body is null
C5_NilRecordsGiveNull ==
    \E c \in Conns :
        /\ RecordsSucceeded(c)
        /\ ret[c].endpoints.isNil
        /\ w[c].body = <<"null", "\n">>

\* C6: ApplyChanges with a supported Content-Type and the encoding of a Changes
\* value calls Provider.ApplyChanges with that value, sequence by sequence;
\* an error of the Provider gives 500 with an empty body, no error gives 204
\* with no body.
C6_ApplyChangesOutcome ==
    \A c \in Conns : \A x \in ChangesValues :
        /\ Routed(c, "ApplyChanges")
        /\ SupportedMediaType(ContentTypeOf(c))
        /\ request[c].body = MarshalChanges(x)
        => /\ call[c].method = "ApplyChanges"
           /\ \A f \in DOMAIN x : call[c].changes[f].elems = x[f].elems
           /\ pc[c] \in {"provider", "done"}
           /\ pc[c] = "provider" => w[c] = NewResponseWriter
           /\ pc[c] = "done" =>
                  /\ ret[c].returned
                  /\ w[c].body = <<>>
                  /\ w[c].status = IF ret[c].err THEN StatusInternalServerError
                                   ELSE StatusNoContent

\* a Changes value with different sequences was applied, and the Provider failed
C6_Witness ==
    \E c \in Conns :
        /\ Routed(c, "ApplyChanges")
        /\ pc[c] = "done"
        /\ call[c].method = "ApplyChanges"
        /\ Len(call[c].changes["create"].elems) = 1
        /\ Len(call[c].changes["updateOld"].elems) = 0
        /\ Len(call[c].changes["delete"].elems) = 1
        /\ ret[c].err
        /\ w[c].status = StatusInternalServerError

\* C7: AdjustEndpoints with supported headers and the encoding of an array x of
\* endpoints, when the Provider returns what it was given and no error,
\* answers 200 with a body that decodes to x.
C7_AdjustEndpointsRoundTrip ==
    \A c \in Conns : \A x \in EndpointSlices :
        /\ Routed(c, "AdjustEndpoints")
        /\ SupportedMediaType(ContentTypeOf(c))
        /\ SupportedMediaType(AcceptOf(c))
        /\ ~x.isNil
        /\ request[c].body = MarshalEndpoints(x)
        /\ pc[c] = "done"
        /\ ret[c].endpoints = call[c].endpoints
        /\ ~ret[c].err
        => /\ w[c].status = StatusOK
           /\ DecodeEndpoints(w[c].body) = [err |-> FALSE, val |-> x]
           /\ Len(DecodeEndpoints(w[c].body).val.elems) = Len(x.elems)

\* two different endpoints went round, in their order
C7_Witness ==
    \E c \in Conns :
        /\ Routed(c, "AdjustEndpoints")
        /\ pc[c] = "done"
        /\ request[c].body = MarshalEndpoints(Slice(
               <<[isNil |-> FALSE, dnsName |-> "a", recordTTL |-> 0],
                 [isNil |-> FALSE, dnsName |-> "", recordTTL |-> 300]>>))
        /\ ret[c].endpoints = call[c].endpoints
        /\ ~ret[c].err
        /\ w[c].status = StatusOK
        /\ w[c].body = request[c].body

\* C8: when Provider.AdjustEndpoints returns an error, the response is 500 and
\* its body is the JSON of the sequence returned with the error (unless the
\* write of the body failed).
C8_AdjustEndpointsProviderError ==
    \A c \in Conns :
        /\ Routed(c, "AdjustEndpoints")
        /\ ret[c].returned
        /\ ret[c].err
        => /\ w[c].status = StatusInternalServerError
           /\ ~w[c].writeErr => w[c].body = MarshalEndpoints(ret[c].endpoints)

\* the Provider failed with one endpoint, which is the body of the 500
C8_Witness ==
    \E c \in Conns :
        /\ Routed(c, "AdjustEndpoints")
        /\ pc[c] = "done"
        /\ ret[c].err
        /\ Len(ret[c].endpoints.elems) = 1
        /\ ret[c].endpoints # call[c].endpoints
        /\ w[c].status = StatusInternalServerError
        /\ w[c].body = MarshalEndpoints(ret[c].endpoints)

\* C9: a request for /health gets 200 with an empty body and reaches no header
\* check, handler or Provider; a request for another path gets what the
\* wrapped handler alone does with it.
C9_HealthBypass ==
    \A c \in Conns :
        pc[c] # "idle" =>
            /\ request[c].path = healthPath =>
                   /\ pc[c] = "done"
                   /\ w[c] = [NewResponseWriter EXCEPT !.status = StatusOK]
                   /\ checks[c] = <<>>
                   /\ NoProviderCall(c)
            /\ request[c].path # healthPath =>
                   \E writeOk \in BOOLEAN :
                       /\ checks[c] = ServeHTTP(NewResponseWriter, request[c], writeOk).checks
                       /\ call[c] = ServeHTTP(NewResponseWriter, request[c], writeOk).call
                       /\ ~ret[c].returned =>
                              w[c] = ServeHTTP(NewResponseWriter, request[c], writeOk).w

\* /health answered a POST that carries no header a handler would accept
C9_Witness ==
    \E c \in Conns :
        /\ pc[c] = "done"
        /\ request[c].path = healthPath
        /\ request[c].method = "POST"
        /\ request[c].handler = "ApplyChanges"
        /\ ContentTypeOf(c) = <<>>
        /\ w[c].status = StatusOK
        /\ w[c].body = <<>>

\* C10: Negotiate with a supported Accept header answers with the JSON of the
\* value GetDomainFilter returned as its body, the negotiated media type as
\* Content-Type, and no Vary header.
C10_NegotiateBody ==
    \A c \in Conns :
        /\ Routed(c, "Negotiate")
        /\ SupportedMediaType(AcceptOf(c))
        /\ ret[c].returned
        /\ ~ret[c].marshalErr
        /\ ~w[c].writeErr
        => /\ w[c].status = StatusOK
           /\ w[c].body = MarshalDomainFilter(ret[c].filter)
           /\ w[c].sent[contentTypeHeader] = mediaTypeVersion(checks[c][1].v)
           /\ w[c].sent[varyHeader] = <<>>
           /\ w[c].header[varyHeader] = <<>>

C10_Witness ==
    \E c \in Conns :
        /\ Routed(c, "Negotiate")
        /\ pc[c] = "done"
        /\ ret[c].filter = [filters |-> <<"a">>]
        /\ w[c].status = StatusOK
        /\ w[c].body = <<"{", "\"include\":", "[", "\"a\"", "]", "}">>
        /\ w[c].sent[varyHeader] = <<>>

\* the response of connection c carries the media type of the version its
\* Accept header negotiated
SentNegotiated(c) ==
    \E i \in 1..Len(checks[c]) :
        /\ ~checks[c][i].isContentType
        /\ checks[c][i].status = 0
        /\ w[c].sent[contentTypeHeader] = mediaTypeVersion(checks[c][i].v)

\* C11 as stated: every response with a non-empty body carries the negotiated
\* versioned media type in Content-Type, and Vary: Content-Type.
C11_EveryBodyIsNegotiated ==
    \A c \in Conns :
        w[c].body # <<>> =>
            /\ SentNegotiated(c)
            /\ w[c].sent[varyHeader] = <<contentTypeHeader>>

\* C11, amended: a 200 response with a non-empty body carries the negotiated
\* media type in Content-Type, with Vary: Content-Type from Records and
\* AdjustEndpoints and with no Vary header from Negotiate; a response of any
\* other status with a non-empty body (the 400, 406 and 415 messages, the 500
\* of AdjustEndpoints) carries text/plain and no Vary header.
C11_BodiesByStatus ==
    \A c \in Conns :
        w[c].body # <<>> =>
            /\ w[c].status = StatusOK =>
                   /\ SentNegotiated(c)
                   /\ w[c].sent[varyHeader] =
                          IF request[c].handler = "Negotiate" THEN <<>>
                          ELSE <<contentTypeHeader>>
            /\ w[c].status # StatusOK =>
                   /\ w[c].sent[contentTypeHeader] = contentTypePlaintext
                   /\ w[c].sent[varyHeader] = <<>>

\* Records answered 200 with a body of one endpoint
C11_Witness ==
    \E c \in Conns :
        /\ Routed(c, "Records")
        /\ pc[c] = "done"
        /\ w[c].status = StatusOK
        /\ Len(ret[c].endpoints.elems) = 1
        /\ w[c].body # <<>>
        /\ w[c].sent[varyHeader] = <<contentTypeHeader>>
        /\ w[c].sent[contentTypeHeader] = mediaTypeVersion1

\* C12: a failed write of an error message or of a response body stops the
\* request it belongs to and no other: every request that did not run to its
\* end is one whose own write failed.
C12_WriteFailureIsolated ==
    \A q \in Conns : pc[q] = "killed" => w[q].writeErr

\* what the handler of request r has written once it ran from begin to its
\* end, given what its own Provider call returned
ResponseEnd(begin, r, rt, writeOk) ==
    CASE r.handler = "Records" -> RecordsEnd(begin.w, rt.endpoints, rt.err, writeOk).w
      [] r.handler = "ApplyChanges" -> ApplyChangesEnd(begin.w, rt.err).w
      [] r.handler = "AdjustEndpoints" ->
             AdjustEndpointsEnd(begin.w, rt.endpoints, rt.err, writeOk).w
      [] r.handler = "Negotiate" ->
             NegotiateEnd(begin.w, rt.filter, rt.marshalErr, writeOk).w

\* what the handler of request r has written so far
ResponseOf(begin, r, rt, writeOk) ==
    IF begin.call.method = "none" \/ ~rt.returned THEN begin.w
    ELSE ResponseEnd(begin, r, rt, writeOk)

\* the response, checks and Provider call of connection c are those of its own
\* request, its own Provider result and the fate of its own writes
OwnResponse(c, begin, ok) ==
    /\ checks[c] = begin.checks
    /\ call[c] = begin.call
    /\ w[c] = ResponseOf(begin, request[c], ret[c], ok)

\* C14: whatever the interleaving, the response of a request, the header
\* checks made for it and the Provider call made for it are determined by that
\* request and by the result of its own Provider call alone; a connection
\* without a request holds nothing of another, and the configuration, the one
\* thing all requests read, is never written.
C14_Stateless ==
    /\ supportedMediaVersions = ConfiguredVersions
    /\ \A c \in Conns :
          IF pc[c] = "idle"
          THEN /\ w[c] = NewResponseWriter
               /\ checks[c] = <<>>
               /\ call[c] = NoCall
               /\ ret[c] = NoRet
          ELSE \E ok1, ok2 \in BOOLEAN :
                   OwnResponse(c, Health(NewResponseWriter, request[c], ok1), ok2)

\* one request waits for its Provider while another, begun and ended in the
\* meantime on the other connection, got its own 500
C14_Witness ==
    /\ pc[1] = "provider"
    /\ request[1].handler = "Records"
    /\ w[1] = NewResponseWriter
    /\ pc[2] = "done"
    /\ request[2].handler = "AdjustEndpoints"
    /\ ret[2].returned
    /\ w[2].status = StatusInternalServerError
    /\ w[2].body = <<"[", "{", "}", "]">>

\* the Provider methods that return an error
Failing == {"Records", "ApplyChanges", "AdjustEndpoints"}

\* C13: in a request that calls the Provider, nothing (no status, no header, no
\* body) is written to the response before the call has returned; and when the
\* context of the request was cancelled before a call of Records, ApplyChanges
\* or AdjustEndpoints returned, the call returned an error and the response
\* status is 500.
C13_WriteAfterProvider ==
    \A c \in Conns :
        /\ pc[c] = "provider" => w[c] = NewResponseWriter
        /\ call[c].method \in Failing /\ ctxDone[c] /\ ret[c].returned =>
               /\ ret[c].err
               /\ w[c].status = StatusInternalServerError

\* the plaintext messages of the handlers, by their first words
Diagnostics ==
    {"client must provide ",
     "client must provide a valid versioned media type in the ",
     "error decoding changes: ",
     "failed to decode request body: "}
DiagnosticBody(b) == Len(b) > 0 /\ b[1] \in Diagnostics

\* C15 as stated: every response with status 400, 406, 415 or 500 carries
\* Content-Type text/plain and a plaintext diagnostic body (the body is there
\* unless writing it failed).
C15_EveryErrorIsPlaintext ==
    \A c \in Conns :
        w[c].status \in {StatusBadRequest, StatusNotAcceptable,
                         StatusUnsupportedMediaType, StatusInternalServerError} =>
            /\ w[c].sent[contentTypeHeader] = contentTypePlaintext
            /\ ~w[c].writeErr => DiagnosticBody(w[c].body)

\* C15, amended: every response with status 400, 406 or 415 carries text/plain
\* and, unless writing it failed, a plaintext diagnostic body; a 500 carries no
\* diagnostic: from Records and Negotiate no Content-Type and no body, from
\* ApplyChanges text/plain and no body, from AdjustEndpoints text/plain and the
\* JSON of the sequence the Provider returned.
C15_ClientErrorsArePlaintext ==
    \A c \in Conns :
        /\ w[c].status \in {StatusBadRequest, StatusNotAcceptable,
                            StatusUnsupportedMediaType} =>
               /\ w[c].sent[contentTypeHeader] = contentTypePlaintext
               /\ ~w[c].writeErr => DiagnosticBody(w[c].body)
               /\ w[c].writeErr => w[c].body = <<>>
        /\ w[c].status = StatusInternalServerError =>
               /\ ~DiagnosticBody(w[c].body)
               /\ w[c].sent[contentTypeHeader] =
                      IF request[c].handler \in {"Records", "Negotiate"} THEN <<>>
                      ELSE contentTypePlaintext
               /\ w[c].body =
                      IF request[c].handler = "AdjustEndpoints" /\ ~w[c].writeErr
                      THEN MarshalEndpoints(ret[c].endpoints)
                      ELSE <<>>

\* Negotiate answered 415, in text/plain, with its message
C15_Witness ==
    \E c \in Conns :
        /\ Routed(c, "Negotiate")
        /\ pc[c] = "done"
        /\ w[c].status = StatusUnsupportedMediaType
        /\ w[c].sent[contentTypeHeader] = contentTypePlaintext
        /\ DiagnosticBody(w[c].body)
        /\ w[c].body[2] = "accept header"

\* the one error response of a header check of connection c: the status, the
\* message naming the header (nothing if its write failed), nothing after it
CheckFailed(c, status, n, name) ==
    /\ Len(checks[c]) = n
    /\ w[c].status = status
    /\ w[c].sent[contentTypeHeader] = contentTypePlaintext
    /\ ~w[c].writeErr =>
           /\ Len(w[c].body) >= 2
           /\ w[c].body[2] = name
           /\ status = StatusNotAcceptable => w[c].body = <<"client must provide ", name>>
    /\ w[c].writeErr => w[c].body = <<>>
    /\ w[c].afterCommit = {}
    /\ NoProviderCall(c)

\* C16: AdjustEndpoints checks Content-Type before Accept, and the first check
\* that fails decides alone: Content-Type missing gives 406 naming the content
\* type and Content-Type unsupported gives 415, whatever Accept is; Accept gives
\* its 406 or 415 only after Content-Type passed. When a check fails there is
\* one error response, no Provider call, and the body plays no part.
C16_AdjustEndpointsCheckOrder ==
    \A c \in Conns :
        Routed(c, "AdjustEndpoints") =>
            /\ Len(checks[c]) \in {1, 2}
            /\ checks[c][1].isContentType
            /\ Len(checks[c]) = 2 =>
                   checks[c][1].status = 0 /\ ~checks[c][2].isContentType
            /\ ContentTypeOf(c) = <<>> =>
                   CheckFailed(c, StatusNotAcceptable, 1, "a content type")
            /\ Unsupported(ContentTypeOf(c)) =>
                   CheckFailed(c, StatusUnsupportedMediaType, 1, "content type")
            /\ SupportedMediaType(ContentTypeOf(c)) /\ AcceptOf(c) = <<>> =>
                   CheckFailed(c, StatusNotAcceptable, 2, "an accept header")
            /\ SupportedMediaType(ContentTypeOf(c)) /\ Unsupported(AcceptOf(c)) =>
                   CheckFailed(c, StatusUnsupportedMediaType, 2, "accept header")
            /\ ~(SupportedMediaType(ContentTypeOf(c)) /\ SupportedMediaType(AcceptOf(c))) =>
                   \E ok \in BOOLEAN :
                       w[c] = AdjustEndpointsBegin(NewResponseWriter,
                                  [request[c] EXCEPT !.body = <<>>], ok).w

\* no Content-Type, an unsupported Accept and a body that does not decode:
\* the answer is the 406 of the content type
C16_Witness ==
    \E c \in Conns :
        /\ Routed(c, "AdjustEndpoints")
        /\ pc[c] = "done"
        /\ ContentTypeOf(c) = <<>>
        /\ Unsupported(AcceptOf(c))
        /\ request[c].body = <<"{">>
        /\ Len(checks[c]) = 1
        /\ w[c].status = StatusNotAcceptable
        /\ w[c].body = <<"client must provide ", "a content type">>

\* C17: when the Provider call succeeded and serializing its result failed, the
\* response status is 500. Records serializes with Encode, which fails when its
\* write fails; Negotiate with json.Marshal. (AdjustEndpoints discards the
\* error of json.Marshal, which no endpoint sequence makes fail.)
C17_EncodeFailureGives500 ==
    \A c \in Conns :
        /\ Routed(c, "Records") /\ ret[c].returned /\ ~ret[c].err /\ w[c].writeErr =>
               w[c].status = StatusInternalServerError
        /\ Routed(c, "Negotiate") /\ ret[c].returned /\ ret[c].marshalErr =>
               w[c].status = StatusInternalServerError

\* C18: for any configured version list, a successful response of Records,
\* AdjustEndpoints or Negotiate to a request whose Accept header is the media
\* type of a supported version v carries the media type of that v as its
\* Content-Type.
C18_ResponseCarriesNegotiatedVersion ==
    \A c \in Conns : \A v \in Supported :
        /\ pc[c] # "idle"
        /\ request[c].path # healthPath
        /\ request[c].handler \in {"Records", "AdjustEndpoints", "Negotiate"}
        /\ AcceptOf(c) = mediaTypeVersion(v)
        /\ ret[c].returned /\ ~ret[c].err /\ ~ret[c].marshalErr
        /\ w[c].status = StatusOK /\ ~w[c].writeErr
        => w[c].sent[contentTypeHeader] = mediaTypeVersion(v)

\* C19: once the status of a response is committed, by WriteHeader or by the
\* first Write, the handler calls neither WriteHeader nor Header().Set again.
C19_CommitOnce ==
    \A c \in Conns : w[c].afterCommit = {}

RECURSIVE JoinedMediaTypes(_, _)
\* the media types of versions from index i on, with ", " between them
JoinedMediaTypes(versions, i) ==
    IF i > Len(versions) THEN <<>>
    ELSE mediaTypeVersion(versions[i])
             \o (IF i < Len(versions) THEN <<", ">> ELSE <<>>)
             \o JoinedMediaTypes(versions, i + 1)

\* C20: for any configured version list, the message of a 415 lists the media
\* type of every supported version once, in the configured order, with ", "
\* between two entries and nothing after the last.
C20_MessageListsVersions ==
    \A c \in Conns : \A i \in 1..Len(checks[c]) :
        checks[c][i].status = StatusUnsupportedMediaType /\ ~w[c].writeErr =>
            w[c].body =
                <<"client must provide a valid versioned media type in the ",
                  IF checks[c][i].isContentType THEN "content type" ELSE "accept header",
                  ": ", "unsupported media type version: '">>
                    \o checks[c][i].value
                    \o <<"'. Supported media types are: '">>
                    \o JoinedMediaTypes(Split(supportedMediaVersions, ","), 1)
                    \o <<"'">>

====
